---- MODULE Spec2Model ----
(***************************************************************************)
(* Model of src/caching_client.rs: CachingClient, the caching decorator    *)
(* in front of the freedom API Client, and the Container impl for Arc<T>.  *)
(*                                                                         *)
(* Every async fn of `impl Api for CachingClient` is split at its .await   *)
(* points, so that concurrent invocations interleave the way the tasks of  *)
(* an executor do.  The moka store's own eviction is not modelled: the     *)
(* store changes only through what caching_client.rs does to it.           *)
(***************************************************************************)
EXTENDS Integers, Sequences, FiniteSets, TLC

\* ---- bounds ----
NumTasks == 2
NumUrls == 2
NumBodies == 2
NumMsgs == 1
NumConfigs == 2
NumHolders == 3
NumValues == 2

Tasks == 1..NumTasks
Urls == 1..NumUrls
Bodies == 1..NumBodies
Msgs == 1..NumMsgs
Configs == 1..NumConfigs
Holders == 1..NumHolders
Values == 1..NumValues

\* reqwest::StatusCode values the upstream may answer with
StatusCodes == {200, 404}
\* crate::error::Error values (spec section 7: transport, serialization)
Errors == {"Transport", "Serialization"}

\* (Bytes, StatusCode)
Pairs == Bodies \X StatusCodes

NoneV == [kind |-> "none"]
Some(x) == [kind |-> "some", val |-> x]
Ok(x) == [kind |-> "ok", val |-> x]
Err(e) == [kind |-> "err", err |-> e]

\* Result<(Bytes, StatusCode), Error> / Result<Response, Error>
Results == {Ok(p) : p \in Pairs} \cup {Err(e) : e \in Errors}

VARIABLES
  cache,     \* self.cache : Url -> Option<(Bytes, StatusCode)>
  inner,     \* self.inner : the wrapped Client (its Config)
  pc,        \* per task: where the invocation is suspended
  op,        \* per task: the Api method being run
  url,       \* per task: the url argument
  msg,       \* per task: the msg argument of post (0 when none)
  calls,     \* per task: the calls this invocation made on self.inner
  reply,     \* per task: what self.inner answered to the awaited call
  result,    \* per task: what the Api method returned
  after,     \* per task: the tasks that had returned when it was invoked
  other,     \* another CachingClient value, the right operand of ==
  orig,      \* the value Arc::new was given (0 before)
  arcVal,    \* the value inside the Arc allocation
  strong,    \* strong count of the Arc allocation
  hstate,    \* per holder: what it has of the Arc
  owned,     \* per holder: the T it got from into_inner
  tClones    \* number of T::clone calls made

vars == <<cache, inner, pc, op, url, msg, calls, reply, result, after,
          other, orig, arcVal, strong, hstate, owned, tClones>>

arcVars == <<orig, arcVal, strong, hstate, owned, tClones>>
cacheVars == <<cache, inner, pc, op, url, msg, calls, reply, result, after>>

\* The tasks whose invocation has returned to its caller.
Returned == {t \in Tasks : pc[t] = "done"}

\* ---- the Arc allocation before any handle exists ----
ArcIdle ==
  /\ orig = 0
  /\ arcVal = NoneV
  /\ strong = 0
  /\ hstate = [h \in Holders |-> "none"]
  /\ owned = [h \in Holders |-> NoneV]
  /\ tClones = 0

\* every content the store can have
Stores == [Urls -> {NoneV} \cup {Some(p) : p \in Pairs}]

\* A CachingClient value before any invocation.  The fields are pub(crate) and
\* the moka handle is shared by every clone of the struct, so the store may
\* already hold entries; get itself never adds one.
Init ==
  /\ cache \in Stores
  /\ inner = [config |-> 1]
  /\ pc = [t \in Tasks |-> "idle"]
  /\ op = [t \in Tasks |-> "none"]
  /\ url = [t \in Tasks |-> 0]
  /\ msg = [t \in Tasks |-> 0]
  /\ calls = [t \in Tasks |-> <<>>]
  /\ reply = [t \in Tasks |-> NoneV]
  /\ result = [t \in Tasks |-> NoneV]
  /\ after = [t \in Tasks |-> {}]
  /\ other = [inner |-> [config |-> 1], cache |-> [u \in Urls |-> NoneV]]
  /\ ArcIdle

\* ---- get ----

\* variant: only a stored success status counts as a hit
CacheGet_SuccessOnly(c, u) ==
  IF c[u].kind = "some" /\ c[u].val[2] # 200 THEN NoneV ELSE c[u]

\* self.cache.get(&url)
CacheGet(c, u) == c[u]

\* variant: every upstream error is reported as a transport error
FutOutcome_MapErr(r) ==
  IF r.kind = "ok"
    THEN Ok(<<r.val[1], r.val[2]>>)
    ELSE Err("Transport")

\* variant: the body is returned with StatusCode::OK whatever upstream said
FutOutcome_Torn(r) ==
  IF r.kind = "ok"
    THEN Ok(<<r.val[1], 200>>)
    ELSE Err(r.err)

\* the async block `fut`: client.get(url_clone).await? then Ok((body, status))
FutOutcome(r) ==
  IF r.kind = "ok"
    THEN Ok(<<r.val[1], r.val[2]>>)
    ELSE Err(r.err)

\* variant: the outcome is stored whatever it is, a failure as an empty 404
CacheAfterMiss_StoreFailure(c, u, r) ==
  IF r.kind = "err" THEN [c EXCEPT ![u] = Some(<<1, 404>>)] ELSE c

\* variant: the pair is stored, under the url next to the one asked
CacheAfterMiss_WrongKey(c, u, r) ==
  IF r.kind = "ok" THEN [c EXCEPT ![(u % NumUrls) + 1] = Some(r.val)] ELSE c

\* the store after the miss arm `None => fut.await?`: nothing is inserted
CacheAfterMiss(c, u, r) == c

\* variant: the request goes to the first url whatever was asked
GetUpstreamUrl_First(u) == 1

\* the argument fut passes to client.get
GetUpstreamUrl(u) == u

GetCall(t, u) ==
  /\ pc[t] = "idle"
  /\ pc' = [pc EXCEPT ![t] = "lookup"]
  /\ op' = [op EXCEPT ![t] = "get"]
  /\ url' = [url EXCEPT ![t] = u]
  /\ after' = [after EXCEPT ![t] = Returned]
  /\ UNCHANGED <<cache, inner, msg, calls, reply, result>>
  /\ UNCHANGED <<arcVars, other>>

\* variant: a get waits while another get of its url is fetching upstream
GetLookup_WaitForPeer(t) ==
  /\ pc[t] = "lookup"
  /\ op[t] = "get"
  /\ \A t2 \in Tasks \ {t} :
       ~(op[t2] = "get" /\ url[t2] = url[t] /\ pc[t2] \in {"awaiting", "ready"})
  /\ LET found == CacheGet(cache, url[t]) IN
       IF found.kind = "some"
         THEN /\ pc' = [pc EXCEPT ![t] = "done"]
              /\ result' = [result EXCEPT ![t] = Ok(found.val)]
              /\ UNCHANGED calls
         ELSE /\ pc' = [pc EXCEPT ![t] = "awaiting"]
              /\ calls' = [calls EXCEPT ![t] =
                   Append(@, [op |-> "get", url |-> GetUpstreamUrl(url[t]),
                              msg |-> 0])]
              /\ UNCHANGED result
  /\ UNCHANGED <<cache, inner, op, url, msg, reply, after>>
  /\ UNCHANGED <<arcVars, other>>

\* match self.cache.get(&url).await { Some(out) => out, None => fut.await? }
GetLookup(t) ==
  /\ pc[t] = "lookup"
  /\ op[t] = "get"
  /\ LET found == CacheGet(cache, url[t]) IN
       IF found.kind = "some"
         THEN /\ pc' = [pc EXCEPT ![t] = "done"]
              /\ result' = [result EXCEPT ![t] = Ok(found.val)]
              /\ UNCHANGED calls
         ELSE /\ pc' = [pc EXCEPT ![t] = "awaiting"]
              /\ calls' = [calls EXCEPT ![t] =
                   Append(@, [op |-> "get", url |-> GetUpstreamUrl(url[t]),
                              msg |-> 0])]
              /\ UNCHANGED result
  /\ UNCHANGED <<cache, inner, op, url, msg, reply, after>>
  /\ UNCHANGED <<arcVars, other>>

\* fut completes: `?` returns the error, otherwise Ok((body, status))
GetResume(t) ==
  /\ pc[t] = "ready"
  /\ op[t] = "get"
  /\ LET r == FutOutcome(reply[t].res) IN
       /\ result' = [result EXCEPT ![t] = r]
       /\ cache' = CacheAfterMiss(cache, url[t], r)
  /\ pc' = [pc EXCEPT ![t] = "done"]
  /\ UNCHANGED <<inner, op, url, msg, calls, reply, after>>
  /\ UNCHANGED <<arcVars, other>>

\* ---- delete ----

DeleteCall(t, u) ==
  /\ pc[t] = "idle"
  /\ pc' = [pc EXCEPT ![t] = "awaiting"]
  /\ op' = [op EXCEPT ![t] = "delete"]
  /\ url' = [url EXCEPT ![t] = u]
  /\ calls' = [calls EXCEPT ![t] =
       Append(@, [op |-> "delete", url |-> u, msg |-> 0])]
  /\ after' = [after EXCEPT ![t] = Returned]
  /\ UNCHANGED <<cache, inner, msg, reply, result>>
  /\ UNCHANGED <<arcVars, other>>

\* variant: a successful delete purges the entry of the url
DeleteResume_Invalidate(t) ==
  /\ pc[t] = "ready"
  /\ op[t] = "delete"
  /\ pc' = [pc EXCEPT ![t] = "done"]
  /\ result' = [result EXCEPT ![t] = reply[t].res]
  /\ cache' = IF reply[t].res.kind = "ok"
                THEN [cache EXCEPT ![url[t]] = NoneV] ELSE cache
  /\ UNCHANGED <<inner, op, url, msg, calls, reply, after>>
  /\ UNCHANGED <<arcVars, other>>

DeleteResume(t) ==
  /\ pc[t] = "ready"
  /\ op[t] = "delete"
  /\ pc' = [pc EXCEPT ![t] = "done"]
  /\ result' = [result EXCEPT ![t] = reply[t].res]
  /\ UNCHANGED <<cache, inner, op, url, msg, calls, reply, after>>
  /\ UNCHANGED <<arcVars, other>>

\* ---- post ----

PostCall(t, u, m) ==
  /\ pc[t] = "idle"
  /\ pc' = [pc EXCEPT ![t] = "awaiting"]
  /\ op' = [op EXCEPT ![t] = "post"]
  /\ url' = [url EXCEPT ![t] = u]
  /\ msg' = [msg EXCEPT ![t] = m]
  /\ calls' = [calls EXCEPT ![t] =
       Append(@, [op |-> "post", url |-> u, msg |-> m])]
  /\ after' = [after EXCEPT ![t] = Returned]
  /\ UNCHANGED <<cache, inner, reply, result>>
  /\ UNCHANGED <<arcVars, other>>

\* variant: a failed post is reported as a transport error
PostResume_MapErr(t) ==
  /\ pc[t] = "ready"
  /\ op[t] = "post"
  /\ pc' = [pc EXCEPT ![t] = "done"]
  /\ result' = [result EXCEPT ![t] =
       IF reply[t].res.kind = "err" THEN Err("Transport") ELSE reply[t].res]
  /\ UNCHANGED <<cache, inner, op, url, msg, calls, reply, after>>
  /\ UNCHANGED <<arcVars, other>>

\* variant: write-through, a successful post stores its response under the url
PostResume_WriteThrough(t) ==
  /\ pc[t] = "ready"
  /\ op[t] = "post"
  /\ pc' = [pc EXCEPT ![t] = "done"]
  /\ result' = [result EXCEPT ![t] = reply[t].res]
  /\ cache' = IF reply[t].res.kind = "ok"
                THEN [cache EXCEPT ![url[t]] = Some(reply[t].res.val)]
                ELSE cache
  /\ UNCHANGED <<inner, op, url, msg, calls, reply, after>>
  /\ UNCHANGED <<arcVars, other>>

PostResume(t) ==
  /\ pc[t] = "ready"
  /\ op[t] = "post"
  /\ pc' = [pc EXCEPT ![t] = "done"]
  /\ result' = [result EXCEPT ![t] = reply[t].res]
  /\ UNCHANGED <<cache, inner, op, url, msg, calls, reply, after>>
  /\ UNCHANGED <<arcVars, other>>

\* ---- config accessors ----

ConfigGet(t) ==
  /\ pc[t] = "idle"
  /\ pc' = [pc EXCEPT ![t] = "done"]
  /\ op' = [op EXCEPT ![t] = "config"]
  /\ result' = [result EXCEPT ![t] = Ok(inner.config)]
  /\ after' = [after EXCEPT ![t] = Returned]
  /\ UNCHANGED <<cache, inner, url, msg, calls, reply>>
  /\ UNCHANGED <<arcVars, other>>

\* config_mut hands out &mut Config; the caller writes c through it
ConfigMut(t, c) ==
  /\ pc[t] = "idle"
  /\ \A t2 \in Tasks : pc[t2] \in {"idle", "done", "cancelled"}
  /\ pc' = [pc EXCEPT ![t] = "done"]
  /\ op' = [op EXCEPT ![t] = "config_mut"]
  /\ inner' = [inner EXCEPT !.config = c]
  /\ result' = [result EXCEPT ![t] = Ok(c)]
  /\ after' = [after EXCEPT ![t] = Returned]
  /\ UNCHANGED <<cache, url, msg, calls, reply>>
  /\ UNCHANGED <<arcVars, other>>

\* ---- the wrapped Client and the executor ----

\* self.inner answers the awaited call: a response or an error
UpstreamReply(t, r) ==
  /\ pc[t] = "awaiting"
  /\ pc' = [pc EXCEPT ![t] = "ready"]
  /\ reply' = [reply EXCEPT ![t] =
       [url |-> calls[t][Len(calls[t])].url, res |-> r]]
  /\ UNCHANGED <<cache, inner, op, url, msg, calls, result, after>>
  /\ UNCHANGED <<arcVars, other>>

\* the caller drops the future at one of its .await points
Cancel(t) ==
  /\ pc[t] \in {"lookup", "awaiting", "ready"}
  /\ pc' = [pc EXCEPT ![t] = "cancelled"]
  /\ UNCHANGED <<cache, inner, op, url, msg, calls, reply, result,
                 after>>
  /\ UNCHANGED <<arcVars, other>>

Next ==
  \/ \E t \in Tasks, u \in Urls : GetCall(t, u)
  \/ \E t \in Tasks : GetLookup(t)
  \/ \E t \in Tasks : GetResume(t)
  \/ \E t \in Tasks, u \in Urls : DeleteCall(t, u)
  \/ \E t \in Tasks : DeleteResume(t)
  \/ \E t \in Tasks, u \in Urls, m \in Msgs : PostCall(t, u, m)
  \/ \E t \in Tasks : PostResume(t)
  \/ \E t \in Tasks : ConfigGet(t)
  \/ \E t \in Tasks, c \in Configs : ConfigMut(t, c)
  \/ \E t \in Tasks, r \in Results : UpstreamReply(t, r)
  \/ \E t \in Tasks : Cancel(t)

Spec == Init /\ [][Next]_vars

\* The executor polls every task that can make progress, and every call on
\* self.inner is answered (spec section 6: it returns eventually or fails).
Fairness ==
  \A t \in Tasks :
    /\ WF_vars(GetLookup(t))
    /\ WF_vars(GetResume(t))
    /\ WF_vars(\E r \in Results : UpstreamReply(t, r))

SpecLive == Init /\ [][Next]_vars /\ Fairness

\* ---- PartialEq ----

\* variant: what a derived PartialEq would compare, every field
Eq_AllFields(a, b) == a.inner = b.inner /\ a.cache = b.cache

\* impl PartialEq for CachingClient: self.inner == other.inner
Eq(a, b) == a.inner = b.inner

\* the decorator the invocations run on, as a value
SelfClient == [inner |-> inner, cache |-> cache]

\* stores with the same content under every url: empty, a success, a 404
UniformStores ==
  {[u \in Urls |-> e] : e \in {NoneV, Some(<<1, 200>>), Some(<<NumBodies, 404>>)}}

\* two CachingClient values: any Config and any of these stores in each
EqInit ==
  /\ cache \in UniformStores
  /\ inner = [config |-> 1]
  /\ pc = [t \in Tasks |-> "idle"]
  /\ op = [t \in Tasks |-> "none"]
  /\ url = [t \in Tasks |-> 0]
  /\ msg = [t \in Tasks |-> 0]
  /\ calls = [t \in Tasks |-> <<>>]
  /\ reply = [t \in Tasks |-> NoneV]
  /\ result = [t \in Tasks |-> NoneV]
  /\ after = [t \in Tasks |-> {}]
  /\ other \in [inner : [config : Configs], cache : UniformStores]
  /\ ArcIdle

SpecEq == EqInit /\ [][Next]_vars

\* ---- Arc<T> as the Container of decoded values ----

\* a decorator nothing is invoked on, while the handles are exercised
ArcInit ==
  /\ cache = [u \in Urls |-> NoneV]
  /\ inner = [config |-> 1]
  /\ pc = [t \in Tasks |-> "idle"]
  /\ op = [t \in Tasks |-> "none"]
  /\ url = [t \in Tasks |-> 0]
  /\ msg = [t \in Tasks |-> 0]
  /\ calls = [t \in Tasks |-> <<>>]
  /\ reply = [t \in Tasks |-> NoneV]
  /\ result = [t \in Tasks |-> NoneV]
  /\ after = [t \in Tasks |-> {}]
  /\ other = [inner |-> [config |-> 1], cache |-> [u \in Urls |-> NoneV]]
  /\ ArcIdle

\* the strong count once one handle is released; the value goes with the last
Release(s) == s - 1
ValAfterRelease(s, v) == IF Release(s) = 0 THEN NoneV ELSE v

\* Arc::new(value): the decoded value is wrapped for the caller
ArcNew(h, v) ==
  /\ orig = 0
  /\ hstate[h] = "none"
  /\ orig' = v
  /\ arcVal' = Some(v)
  /\ strong' = 1
  /\ hstate' = [hstate EXCEPT ![h] = "held"]
  /\ UNCHANGED <<owned, tClones>>
  /\ UNCHANGED <<cacheVars, other>>

\* Arc::clone: another holder gets a handle to the same allocation
ArcClone(h, h2) ==
  /\ hstate[h] = "held"
  /\ hstate[h2] = "none"
  /\ strong' = strong + 1
  /\ hstate' = [hstate EXCEPT ![h2] = "held"]
  /\ UNCHANGED <<orig, arcVal, owned, tClones>>
  /\ UNCHANGED <<cacheVars, other>>

\* drop(Arc<T>)
ArcDrop(h) ==
  /\ hstate[h] = "held"
  /\ strong' = Release(strong)
  /\ arcVal' = ValAfterRelease(strong, arcVal)
  /\ hstate' = [hstate EXCEPT ![h] = "dropped"]
  /\ UNCHANGED <<orig, owned, tClones>>
  /\ UNCHANGED <<cacheVars, other>>

\* variant: the value is always duplicated, the handle never unwrapped
TryUnwrap_Never(s) == FALSE

\* Arc::try_unwrap inside unwrap_or_clone: succeeds iff this is the only handle
TryUnwrap(s) == s = 1

\* into_inner, first half: try_unwrap moves the value out or gives the Arc back
IntoInner(h) ==
  /\ hstate[h] = "held"
  /\ IF TryUnwrap(strong)
       THEN /\ owned' = [owned EXCEPT ![h] = Ok(arcVal.val)]
            /\ arcVal' = NoneV
            /\ strong' = 0
            /\ hstate' = [hstate EXCEPT ![h] = "owned"]
       ELSE /\ hstate' = [hstate EXCEPT ![h] = "cloning"]
            /\ UNCHANGED <<owned, arcVal, strong>>
  /\ UNCHANGED <<orig, tClones>>
  /\ UNCHANGED <<cacheVars, other>>

\* into_inner, second half: (*arc).clone(), then the handle is dropped
IntoInnerClone(h) ==
  /\ hstate[h] = "cloning"
  /\ owned' = [owned EXCEPT ![h] = Ok(arcVal.val)]
  /\ tClones' = tClones + 1
  /\ strong' = Release(strong)
  /\ arcVal' = ValAfterRelease(strong, arcVal)
  /\ hstate' = [hstate EXCEPT ![h] = "owned"]
  /\ UNCHANGED orig
  /\ UNCHANGED <<cacheVars, other>>

ArcNext ==
  \/ \E h \in Holders, v \in Values : ArcNew(h, v)
  \/ \E h \in Holders, h2 \in Holders : ArcClone(h, h2)
  \/ \E h \in Holders : ArcDrop(h)
  \/ \E h \in Holders : IntoInner(h)
  \/ \E h \in Holders : IntoInnerClone(h)

SpecArc == ArcInit /\ [][ArcNext]_vars

\* ======================= properties =======================

TypeOK ==
  /\ cache \in [Urls -> {NoneV} \cup {Some(p) : p \in Pairs}]
  /\ inner \in [config : Configs]
  /\ pc \in [Tasks -> {"idle", "lookup", "awaiting", "ready", "done",
                       "cancelled"}]
  /\ op \in [Tasks -> {"none", "get", "delete", "post", "config",
                       "config_mut"}]
  /\ url \in [Tasks -> Urls \cup {0}]
  /\ msg \in [Tasks -> Msgs \cup {0}]
  /\ after \in [Tasks -> SUBSET Tasks]
  /\ strong \in 0..NumHolders
  /\ tClones \in 0..NumHolders

\* get invocations on u
Readers(u) == {t \in Tasks : op[t] = "get" /\ url[t] = u}

\* t2 was invoked after t1 had returned, both are get on the same url, and
\* no other get on that url exists
Successive(t1, t2) ==
  /\ t1 \in after[t2]
  /\ op[t1] = "get"
  /\ op[t2] = "get"
  /\ url[t1] = url[t2]
  /\ Readers(url[t1]) = {t1, t2}

\* t has got past the store lookup
PastLookup(t) == pc[t] \in {"awaiting", "ready", "done"}

RECURSIVE TotalCalls(_)
TotalCalls(S) ==
  IF S = {} THEN 0
  ELSE LET t == CHOOSE x \in S : TRUE IN Len(calls[t]) + TotalCalls(S \ {t})

\* C1: of two successive get(url), the first a miss that succeeded upstream,
\* the second makes no upstream call and returns the same (body, status).
C1_SuccessiveReadsIdentical ==
  \A t1 \in Tasks, t2 \in Tasks :
    (/\ Successive(t1, t2)
     /\ Len(calls[t1]) > 0
     /\ result[t1].kind = "ok"
     /\ PastLookup(t2))
    => /\ calls[t2] = <<>>
       /\ pc[t2] = "done" => result[t2] = result[t1]

\* C2: a get that missed and whose upstream call succeeded leaves the store
\* mapping its url to exactly the pair upstream returned, and only that
\* entry changed.
C2_MissFillInserts ==
  [][\A t \in Tasks :
       (/\ pc[t] = "ready"
        /\ op[t] = "get"
        /\ reply[t].res.kind = "ok"
        /\ pc'[t] = "done")
       => cache' = [cache EXCEPT ![url[t]] = Some(reply[t].res.val)]]_vars

\* C3: a get that finds an entry for its url returns exactly the stored
\* (body, status), whatever the status, and makes no upstream call.
C3_HitServesStored ==
  [][\A t \in Tasks :
       (/\ pc[t] = "lookup"
        /\ op[t] = "get"
        /\ cache[url[t]].kind = "some"
        /\ pc'[t] \notin {"lookup", "cancelled"})
       => /\ pc'[t] = "done"
          /\ result'[t] = Ok(cache[url[t]].val)
          /\ calls'[t] = <<>>]_vars

C3_Witness ==
  \E t \in Tasks :
    /\ pc[t] = "done"
    /\ op[t] = "get"
    /\ cache[url[t]].kind = "some"
    /\ cache[url[t]].val[2] = 404
    /\ result[t] = Ok(cache[url[t]].val)
    /\ calls[t] = <<>>

\* C4: a get whose upstream call fails leaves the store as it was, and the
\* next get of that url calls upstream once and returns what upstream says.
C4_FailedReadLeavesNoTrace ==
  /\ [][\A t \in Tasks :
          (/\ pc[t] = "ready"
           /\ op[t] = "get"
           /\ reply[t].res.kind = "err"
           /\ pc'[t] = "done")
          => cache' = cache]_vars
  /\ [](\A t1 \in Tasks, t2 \in Tasks :
          (/\ Successive(t1, t2)
           /\ result[t1].kind = "err"
           /\ PastLookup(t2))
          => /\ Len(calls[t2]) = 1
             /\ pc[t2] = "done" => result[t2] = reply[t2].res)

C4_Witness ==
  \E t1 \in Tasks, t2 \in Tasks :
    /\ Successive(t1, t2)
    /\ result[t1].kind = "err"
    /\ pc[t2] = "done"
    /\ Len(calls[t2]) = 1
    /\ result[t2].kind = "ok"
    /\ cache[url[t2]] = NoneV

\* C5: an error of the upstream get is what the get returns, unchanged, and
\* the invocation made that one upstream call only.
C5_ErrorPropagatedUnchanged ==
  \A t \in Tasks :
    (op[t] = "get" /\ reply[t] # NoneV /\ reply[t].res.kind = "err")
    => /\ Len(calls[t]) = 1
       /\ pc[t] = "done" => result[t] = reply[t].res

C5_Witness ==
  \E t \in Tasks :
    /\ op[t] = "get"
    /\ pc[t] = "done"
    /\ reply[t] # NoneV
    /\ reply[t].res = Err("Serialization")
    /\ result[t] = Err("Serialization")
    /\ Len(calls[t]) = 1

\* C6: no step of delete, post, config or config_mut changes the store, and
\* a get that returns after a delete or post of its url has returned serves
\* the entry the store holds for it.
C6_WritesLeaveStoreAlone ==
  /\ [][\A t \in Tasks :
          (/\ pc'[t] # pc[t]
           /\ op'[t] \in {"delete", "post", "config", "config_mut"})
          => cache' = cache]_vars
  /\ [](\A t1 \in Tasks, t2 \in Tasks :
          (/\ t1 \in after[t2]
           /\ op[t1] \in {"delete", "post"}
           /\ op[t2] = "get"
           /\ url[t1] = url[t2]
           /\ pc[t2] = "done"
           /\ cache[url[t2]].kind = "some")
          => result[t2] = Ok(cache[url[t2]].val))

C6_Witness ==
  \E t1 \in Tasks, t2 \in Tasks :
    /\ t1 \in after[t2]
    /\ op[t1] = "delete"
    /\ result[t1].kind = "ok"
    /\ op[t2] = "get"
    /\ url[t1] = url[t2]
    /\ pc[t2] = "done"
    /\ cache[url[t2]].kind = "some"
    /\ result[t2] = Ok(cache[url[t2]].val)

\* C7: delete and post make exactly one upstream call, of the same
\* operation with the same arguments, and return its outcome unchanged.
C7_PureDelegation ==
  \A t \in Tasks :
    (op[t] \in {"delete", "post"})
    => /\ calls[t] = <<[op |-> op[t], url |-> url[t], msg |-> msg[t]]>>
       /\ pc[t] = "done" => /\ reply[t].url = url[t]
                            /\ result[t] = reply[t].res

C7_Witness ==
  \E t1 \in Tasks, t2 \in Tasks :
    /\ op[t1] = "post"
    /\ pc[t1] = "done"
    /\ result[t1] = Err("Serialization")
    /\ op[t2] = "delete"
    /\ pc[t2] = "done"
    /\ result[t2].kind = "ok"

\* C8: the get invocations on one uncached url make together at most as
\* many upstream calls as there are invocations, and each one that returned
\* returned an outcome upstream gave for that url.
C8_ConcurrentMisses ==
  \A u \in Urls :
    cache[u] = NoneV
    => /\ TotalCalls(Readers(u)) <= Cardinality(Readers(u))
       /\ \A t \in Readers(u) :
            pc[t] = "done"
            => \E t2 \in Readers(u) :
                 /\ reply[t2] # NoneV
                 /\ reply[t2].url = u
                 /\ result[t] = reply[t2].res

\* two get of one url in flight together, both answered, differently
C8_Witness ==
  \E t1 \in Tasks, t2 \in Tasks :
    /\ t1 # t2
    /\ Readers(url[t1]) = {t1, t2}
    /\ after[t1] = {}
    /\ after[t2] = {}
    /\ pc[t1] = "done"
    /\ pc[t2] = "done"
    /\ TotalCalls({t1, t2}) = 2
    /\ result[t1].kind = "ok"
    /\ result[t2].kind = "ok"
    /\ result[t1] # result[t2]

\* C9: a get dropped by its caller once upstream has answered with success
\* has an entry for its url in the store.
C9_CancelStillPopulates ==
  \A t \in Tasks :
    (/\ pc[t] = "cancelled"
     /\ op[t] = "get"
     /\ reply[t] # NoneV
     /\ reply[t].res.kind = "ok")
    => cache[url[t]].kind = "some"

\* the handles that still point at the allocation
Live == {h \in Holders : hstate[h] \in {"held", "cloning"}}

\* C10: into_inner never fails and yields the shared value; the only handle
\* moves the value out with no T::clone, a handle among several leaves the
\* allocation and its value to the others.
C10_IntoInnerNeverFails ==
  /\ [](\A h \in Holders :
          /\ hstate[h] = "owned" <=> owned[h] # NoneV
          /\ hstate[h] = "owned" => owned[h] = Ok(orig))
  /\ [](strong = Cardinality(Live))
  /\ [](Live # {} => arcVal = Some(orig))
  /\ [][\A h \in Holders :
          (/\ hstate[h] = "held"
           /\ hstate'[h] \in {"owned", "cloning"}
           /\ Live = {h})
          => /\ hstate'[h] = "owned"
             /\ owned'[h] = Ok(orig)
             /\ tClones' = tClones]_vars
  /\ [][\A h \in Holders :
          (hstate[h] = "cloning" /\ hstate'[h] = "owned")
          => /\ owned'[h] = Ok(orig)
             /\ tClones' = tClones + 1
             /\ \A h2 \in Live \ {h} : arcVal' = Some(orig)]_vars

\* one holder unwrapped a shared handle by duplication, the last one moved
C10_Witness ==
  \E h1 \in Holders, h2 \in Holders :
    /\ h1 # h2
    /\ hstate[h1] = "owned"
    /\ hstate[h2] = "owned"
    /\ owned[h1] = Ok(orig)
    /\ owned[h2] = Ok(orig)
    /\ tClones = 1
    /\ strong = 0

\* get invocations on u that missed, were answered with success and returned
Fills(u) ==
  {t \in Readers(u) :
     /\ pc[t] = "done"
     /\ calls[t] # <<>>
     /\ reply[t] # NoneV
     /\ reply[t].res.kind = "ok"}

MissFillStep(t, u) ==
  /\ pc[t] = "ready"
  /\ op[t] = "get"
  /\ url[t] = u
  /\ reply[t].res.kind = "ok"
  /\ pc'[t] = "done"

\* C12: a url gets an entry only in the step in which a get of that url that
\* missed returns upstream's success, and the entry is that pair; a url that
\* has an entry keeps one through every step of get, post, delete and the
\* config accessors.
C12_KeyStateMachine ==
  [][\A u \in Urls :
       /\ (cache[u] = NoneV /\ cache'[u] # NoneV)
          => \E t \in Tasks :
               MissFillStep(t, u) /\ cache'[u] = Some(reply[t].res.val)
       /\ cache[u] # NoneV => cache'[u] # NoneV]_vars

\* a url with an entry after a get, a delete and nothing else touched it
C12_Witness ==
  \E t1 \in Tasks, t2 \in Tasks :
    /\ op[t1] = "get"
    /\ op[t2] = "delete"
    /\ url[t1] = url[t2]
    /\ pc[t1] = "done"
    /\ pc[t2] = "done"
    /\ result[t2].kind = "ok"
    /\ cache[url[t1]] # NoneV
    /\ \E u \in Urls : cache[u] = NoneV

\* C13: a get makes at most one upstream call; one that missed made exactly
\* one, a get of its own url, and returns what that call produced.
C13_OneUpstreamCallPerRead ==
  \A t \in Tasks :
    op[t] = "get"
    => /\ Len(calls[t]) <= 1
       /\ (PastLookup(t) /\ cache[url[t]] = NoneV)
          => calls[t] = <<[op |-> "get", url |-> url[t], msg |-> 0]>>
       /\ (pc[t] = "done" /\ calls[t] # <<>>)
          => /\ reply[t].url = url[t]
             /\ result[t] = reply[t].res

C13_Witness ==
  \E t \in Tasks :
    /\ op[t] = "get"
    /\ url[t] = NumUrls
    /\ pc[t] = "done"
    /\ calls[t] = <<[op |-> "get", url |-> NumUrls, msg |-> 0]>>
    /\ reply[t] # NoneV
    /\ reply[t].res = Ok(<<NumBodies, 404>>)
    /\ result[t] = Ok(<<NumBodies, 404>>)

\* C14: no step of a get changes the entry, or the absence of an entry, of
\* any url other than its own.
C14_ReadFrame ==
  [][\A t \in Tasks :
       (pc'[t] # pc[t] /\ op'[t] = "get")
       => \A u \in Urls \ {url'[t]} : cache'[u] = cache[u]]_vars

\* around one url with an entry: a hit on it, and a miss of another url
\* answered with success
C14_Witness ==
  \E t1 \in Tasks, t2 \in Tasks :
    /\ op[t1] = "get"
    /\ op[t2] = "get"
    /\ url[t1] # url[t2]
    /\ pc[t1] = "done"
    /\ pc[t2] = "done"
    /\ calls[t1] = <<>>
    /\ cache[url[t1]] # NoneV
    /\ calls[t2] # <<>>
    /\ result[t2].kind = "ok"

\* a get that has been invoked and has neither returned nor been dropped
ReadInFlight(t) ==
  op[t] = "get" /\ pc[t] \in {"lookup", "awaiting", "ready"}

\* C15: every get that is invoked and not dropped by its caller returns, with
\* a (body, status) or an error; its own steps are never held up by another
\* invocation.
C15_ReadsComplete ==
  /\ [](\A t \in Tasks :
          /\ (op[t] = "get" /\ pc[t] = "lookup") => ENABLED GetLookup(t)
          /\ (op[t] = "get" /\ pc[t] = "ready") => ENABLED GetResume(t)
          /\ (op[t] = "get" /\ pc[t] = "done")
             => result[t].kind \in {"ok", "err"})
  /\ \A t \in Tasks :
       ReadInFlight(t) ~> (pc[t] \in {"done", "cancelled"})

\* a get that missed has returned while another get of the same url is
\* still waiting for upstream
C15_Witness ==
  \E t1 \in Tasks, t2 \in Tasks :
    /\ t1 # t2
    /\ op[t1] = "get"
    /\ op[t2] = "get"
    /\ url[t1] = url[t2]
    /\ after[t1] = {}
    /\ pc[t1] = "done"
    /\ calls[t1] # <<>>
    /\ pc[t2] = "awaiting"

\* C16: self == other exactly when the wrapped clients are equal, the same
\* with any store put in place of self's, and no step that leaves both
\* wrapped clients as they are changes the comparison.
C16_EqIgnoresStore ==
  /\ [](Eq(SelfClient, other) <=> inner = other.inner)
  /\ [](\A c \in Stores :
          Eq([inner |-> inner, cache |-> c], other) = Eq(SelfClient, other))
  /\ [][(inner' = inner /\ other'.inner = other.inner)
        => (Eq([inner |-> inner', cache |-> cache'], other')
              = Eq(SelfClient, other))]_vars

\* equal clients over different stores compare equal, after a get, and after
\* config_mut made the clients equal
C16_Witness ==
  /\ inner = other.inner
  /\ cache # other.cache
  /\ Eq(SelfClient, other)
  /\ \E t1 \in Tasks, t2 \in Tasks :
       /\ op[t1] = "config_mut"
       /\ pc[t1] = "done"
       /\ op[t2] = "get"
       /\ pc[t2] = "done"
       /\ t1 \in after[t2]

====
